---- MODULE Spec2Model ----
(***************************************************************************)
(* VST3 plugin hosting layer of Maolan: the Vst3Processor (parameters,     *)
(* automation, state save/restore), the Track that owns the processors and *)
(* the Engine's control-plane handlers, as written in the Rust listings of *)
(* VST3_IMPLEMENTATION_PLAN.md and of the Phase 4/5 work notes.            *)
(*                                                                         *)
(* Normalized values are f32. They are modelled in fixed point: the        *)
(* integer k stands for k * 2^-24, so ONE is 1.0 and f32::EPSILON (2^-23)  *)
(* is 2. Every multiple of 2^-24 in [-1, 1] is an f32, f32 -> f64 is       *)
(* exact, and the difference of two such values is exact in f32 when its   *)
(* magnitude is at most 1 and is far above EPSILON otherwise, so integer   *)
(* arithmetic decides the comparisons of the code the way f32 does.        *)
(***************************************************************************)
EXTENDS Integers, Sequences, FiniteSets, TLC

VARIABLES
    proc,       \* SpecParam: the Vst3Processor under test, with its plugin
    last,       \* SpecParam: the last call made on proc and what it returned
    snap,       \* SpecParam: the Vst3PluginState the caller holds, or NoState
    rt,         \* SpecParam: history of the last accepted set: id, value, stage
    tracks,     \* Spec: Engine.state.tracks, track name -> Track
    reply,      \* Spec: the request handled by the last step and its answer
    teardown,   \* Spec: the native calls and releases of a drop in the last step
    processed,  \* Spec: the native process calls of a block in the last step
    bridge,     \* SpecBlock: the audio side of a Vst3Processor: buses, AudioIO buffers
    blk,        \* SpecBlock: the last block processed and what it did
    threads,    \* SpecLock: position of the control thread and of the audio thread
    locks,      \* SpecLock: owner of each mutex, "" when free
    loader,     \* SpecLife: mapped libraries, live factories and instances
    lifeLast,   \* SpecLife: the last loader or lifecycle call and its result
    stream,     \* SpecStream: a MemoryStream: data and position
    io,         \* SpecStream: the last stream call and what it returned
    race,       \* SpecRace: a set call and a block interleaved step by step
    clip,       \* SpecClip: a clip's start and end, State::zoom and the slider
    ui,         \* SpecTracks: audio::Track::all with each track's UI data
    view        \* SpecView: the two views of the main group and their menu

vars == <<proc, last, snap, rt, tracks, reply, teardown, processed,
          bridge, blk, threads, locks, loader, lifeLast, stream, io,
          race, clip, ui, view>>
paramVars == <<proc, last, snap, rt>>
engineVars == <<tracks, reply, teardown, processed>>
blockVars == <<bridge, blk>>
lockVars == <<threads, locks>>
lifeVars == <<loader, lifeLast>>
streamVars == <<stream, io>>
raceVars == <<race>>
guiVars == <<clip, ui, view>>
hostVars == <<paramVars, engineVars, blockVars, lockVars, lifeVars, streamVars>>
outsideParam == <<engineVars, blockVars, lockVars, lifeVars, streamVars,
    raceVars, guiVars>>
outsideEngine == <<paramVars, blockVars, lockVars, lifeVars, streamVars,
    raceVars, guiVars>>
outsideBlock == <<paramVars, engineVars, lockVars, lifeVars, streamVars,
    raceVars, guiVars>>
outsideLock == <<paramVars, engineVars, blockVars, lifeVars, streamVars,
    raceVars, guiVars>>
outsideLife == <<paramVars, engineVars, blockVars, lockVars, streamVars,
    raceVars, guiVars>>
outsideStream == <<paramVars, engineVars, blockVars, lockVars, lifeVars,
    raceVars, guiVars>>
outsideRace == <<hostVars, guiVars>>
outsideClip == <<hostVars, raceVars, ui, view>>
outsideTracks == <<hostVars, raceVars, clip, view>>
outsideView == <<hostVars, raceVars, clip, ui>>

---------------------------------------------------------------------------
(* Values *)

ONE == 2^24
HALF == 2^23
EPSILON == 2

Abs(x) == IF x < 0 THEN -x ELSE x

InRange(v) == 0 <= v /\ v <= ONE

(* The strings of the Result<_, String> errors of the listings. *)
Ok == "Ok"
ParameterNotFound == "Parameter not found"
IdentityMismatch == "Plugin ID mismatch"
InstanceNotFound == "Instance not found"
NativeFailure == "native call failed"

---------------------------------------------------------------------------
(* The stub plugins a bundle path loads: identity, parameter ids in        *)
(* enumeration order (ids are opaque keys, not indices) and the normalized *)
(* values the controller reports at discovery.                             *)

PluginId(path) == IF path = "eq.vst3" THEN "EQ" ELSE "GAIN"
PluginParams(path) == IF path = "eq.vst3" THEN <<7, 3>> ELSE <<0>>
PluginDefaults(path) == IF path = "eq.vst3" THEN <<HALF, 0>> ELSE <<HALF>>

---------------------------------------------------------------------------
(* PluginFactory and PluginInstance: the component and its two facets. *)

FailSteps == {"none", "factory", "create", "initialize", "setup", "activate"}

(* PluginFactory::create_instance: the component, not yet initialized; the
   facets are not queried yet and nothing is cached. *)
create_instance(path) ==
    [plugin_id |-> PluginId(path),
     path |-> path,
     parameters |-> PluginParams(path),
     scalar_values |-> <<>>,
     previous_values |-> <<>>,
     controller |-> PluginDefaults(path),
     component |-> PluginDefaults(path),
     audio_processor |-> FALSE,
     edit_controller |-> FALSE,
     setup |-> FALSE,
     lifecycle |-> "Created"]

(* PluginInstance::initialize: IComponent::initialize, then the queries for
   IAudioProcessor and IEditController. There is no check of the state the
   instance is in; the stub component that is initialized again stays in
   the state it has. *)
initialize(p) ==
    [p EXCEPT !.lifecycle = IF @ = "Created" THEN "Initialized" ELSE @,
              !.audio_processor = TRUE,
              !.edit_controller = TRUE]

(* PluginInstance::setup_processing: IAudioProcessor::setupProcessing, on
   the processing facet when there is one. *)
setup_processing(p) == IF p.audio_processor THEN [p EXCEPT !.setup = TRUE] ELSE p

(* PluginInstance::set_active: IComponent::setActive *)
set_active(p, active) ==
    [p EXCEPT !.lifecycle = IF active THEN "Active" ELSE "Inactive"]

---------------------------------------------------------------------------
(* Module loading. A loader state holds the set of bundle paths whose
   shared library is mapped, the paths a live PluginFactory was made from
   and the live PluginInstances. *)

Bundles == {"eq.vst3", "gain.vst3"}

(* PluginFactory::from_module: libloading::Library::new maps the library,
   GetPluginFactory gives the factory, PluginFactory { ptr } is returned.
   PluginFactory has no field for the Library: the local `library` is
   dropped when from_module returns and the library is closed. *)
from_module(l, module_path) ==
    IF module_path \notin Bundles
    THEN [l |-> l, res |-> NativeFailure]
    ELSE LET opened == [l EXCEPT !.mapped = @ \cup {module_path}]
             wrapped == [opened EXCEPT !.factories = @ \cup {module_path}]
         IN [l |-> [wrapped EXCEPT !.mapped = @ \ {module_path}], res |-> Ok]

---------------------------------------------------------------------------
(* Vst3Processor: parameters *)

(* parameters.iter().position(|p| p.id == param_id): the first index, 0 for None *)
position(parameters, param_id) ==
    LET hits == {i \in 1..Len(parameters) : parameters[i] = param_id}
    IN IF hits = {} THEN 0 ELSE CHOOSE i \in hits : \A j \in hits : i <= j

(* The stub controller's getParamNormalized: the value it holds for the id. *)
getParamNormalized(p, param_id) == p.controller[position(p.parameters, param_id)]

discover_parameters_pushes_twice(p) ==
    LET values == [i \in 1..Len(p.parameters) |->
                      getParamNormalized(p, p.parameters[i])]
    IN [p EXCEPT !.scalar_values = values \o values, !.previous_values = values]

(* discover_parameters: one ParameterInfo and one cached value per parameter
   index, in enumeration order; the cached value is getParamNormalized(id).
   previous_values starts as a copy of the discovered values. *)
discover_parameters(p) ==
    LET values == [i \in 1..Len(p.parameters) |->
                      getParamNormalized(p, p.parameters[i])]
    IN [p EXCEPT !.scalar_values = values, !.previous_values = values]

get_parameter_value(p, param_id) ==
    LET idx == position(p.parameters, param_id)
    IN IF idx = 0
       THEN [res |-> ParameterNotFound, value |-> 0]
       ELSE [res |-> Ok, value |-> p.scalar_values[idx]]

set_parameter_value_to_processor(p, param_id, normalized_value) ==
    LET idx == position(p.parameters, param_id)
    IN IF idx = 0
       THEN [p |-> p, res |-> ParameterNotFound, native |-> <<>>]
       ELSE [p |-> [p EXCEPT !.scalar_values[idx] = normalized_value,
                             !.controller[idx] = normalized_value,
                             !.component[idx] = normalized_value],
             res |-> Ok,
             native |-> <<"IEditController::setParamNormalized",
                          "IAudioProcessor::process">>]

(* set_parameter_value: no range check; the cache slot is written and the
   value is handed to the controller at once (setParamNormalized). The stub
   controller keeps the value it is given. *)
set_parameter_value(p, param_id, normalized_value) ==
    LET idx == position(p.parameters, param_id)
    IN IF idx = 0
       THEN [p |-> p, res |-> ParameterNotFound, native |-> <<>>]
       ELSE [p |-> [p EXCEPT !.scalar_values[idx] = normalized_value,
                             !.controller[idx] = normalized_value],
             res |-> Ok, native |-> <<"IEditController::setParamNormalized">>]

(* The parameter indices prepare_process_data adds a point for. *)
changed(p) ==
    {i \in 1..Len(p.parameters) :
        Abs(p.scalar_values[i] - p.previous_values[i]) > EPSILON}

RECURSIVE points_from(_, _, _)
points_from(p, idxs, i) ==
    IF i > Len(p.parameters) THEN <<>>
    ELSE (IF i \in idxs THEN <<<<p.parameters[i], 0, p.scalar_values[i]>>>> ELSE <<>>)
         \o points_from(p, idxs, i + 1)

prepare_process_data_no_update(p) ==
    [p |-> p, points |-> points_from(p, changed(p), 1)]

prepare_process_data_writes_back(p) ==
    [p |-> [p EXCEPT !.scalar_values = p.previous_values],
     points |-> points_from(p, changed(p), 1)]

(* prepare_process_data, parameter part: for each parameter in order, a
   point (id, offset 0, current) when |current - previous| > f32::EPSILON,
   and previous := current for that parameter only. *)
prepare_process_data(p) ==
    [p |-> [p EXCEPT !.previous_values =
                [i \in 1..Len(p.parameters) |->
                    IF i \in changed(p) THEN p.scalar_values[i]
                    ELSE p.previous_values[i]]],
     points |-> points_from(p, changed(p), 1)]

(* The stub plugin's process call: the processing facet takes the value of
   every automation point of inputParameterChanges. *)
RECURSIVE apply_points(_, _, _)
apply_points(component, parameters, points) ==
    IF points = <<>> THEN component
    ELSE LET pt == Head(points)
             idx == position(parameters, pt[1])
         IN apply_points([component EXCEPT ![idx] = pt[3]], parameters, Tail(points))

(* process_with_midi / process_with_audio_io: build ProcessData, then the
   native IAudioProcessor::process. `reported` are the points the plugin
   puts into outputParameterChanges during the call (its processing facet
   takes these values); nothing reads them after the call. *)
process_with_midi(p, reported) ==
    LET prep == prepare_process_data(p)
        forwarded == apply_points(prep.p.component, prep.p.parameters, prep.points)
    IN [p |-> [prep.p EXCEPT !.component =
                    apply_points(forwarded, prep.p.parameters, reported)],
        points |-> prep.points,
        native |-> <<"IAudioProcessor::process">>,
        lifecycle |-> p.lifecycle]

---------------------------------------------------------------------------
(* Vst3Processor: state save and restore. A Vst3PluginState holds the
   plugin id and the bytes the two facets wrote; the stub component writes
   its parameter values, the stub controller its normalized values. *)

NoState == [plugin_id |-> "", component_state |-> <<>>, controller_state |-> <<>>]

snapshot_state_both_from_component(p, failing) ==
    IF failing \in {"component", "controller"}
    THEN [res |-> NativeFailure, state |-> NoState]
    ELSE [res |-> Ok,
          state |-> [plugin_id |-> p.plugin_id,
                     component_state |-> p.component,
                     controller_state |-> p.component]]

(* snapshot_state: getState of the component, then of the controller, each
   into a fresh MemoryStream; either native error is returned (`?`). *)
snapshot_state(p, failing) ==
    IF failing = "component" THEN [res |-> NativeFailure, state |-> NoState]
    ELSE IF failing = "controller" THEN [res |-> NativeFailure, state |-> NoState]
    ELSE [res |-> Ok,
          state |-> [plugin_id |-> p.plugin_id,
                     component_state |-> p.component,
                     controller_state |-> p.controller]]

resync_skipped(p) == p

(* The re-sync loop of restore_state: for every parameter, the cache slot
   found by the parameter's id takes getParamNormalized(id). *)
resync(p) ==
    [p EXCEPT !.scalar_values =
        [i \in 1..Len(p.parameters) |->
            IF position(p.parameters, p.parameters[i]) = i
            THEN getParamNormalized(p, p.parameters[i])
            ELSE p.scalar_values[i]]]

restore_state_no_identity_check(p, state, failing) ==
    LET fit(s) == [i \in 1..Len(p.parameters) |-> IF i <= Len(s) THEN s[i] ELSE 0]
    IN IF failing = "component"
       THEN [p |-> p, res |-> NativeFailure, native |-> <<"IComponent::setState">>]
       ELSE [p |-> resync([p EXCEPT !.component = fit(state.component_state),
                                    !.controller = IF state.controller_state = <<>>
                                                   THEN p.controller
                                                   ELSE fit(state.controller_state)]),
             res |-> Ok,
             native |-> <<"IComponent::setState", "IEditController::setState">>]

(* restore_state: the id check, component setState, controller setState
   when the controller bytes are not empty, then the re-sync. Each native
   error returns at once (`?`), with whatever was applied before it. *)
restore_state(p, state, failing) ==
    IF state.plugin_id # p.plugin_id
    THEN [p |-> p, res |-> IdentityMismatch, native |-> <<>>]
    ELSE IF failing = "component"
    THEN [p |-> p, res |-> NativeFailure, native |-> <<"IComponent::setState">>]
    ELSE LET p1 == [p EXCEPT !.component = state.component_state]
         IN IF state.controller_state = <<>>
            THEN [p |-> resync(p1), res |-> Ok,
                  native |-> <<"IComponent::setState">>]
            ELSE IF failing = "controller"
            THEN [p |-> p1, res |-> NativeFailure,
                  native |-> <<"IComponent::setState", "IEditController::setState">>]
            ELSE [p |-> resync([p1 EXCEPT !.controller = state.controller_state]),
                  res |-> Ok,
                  native |-> <<"IComponent::setState", "IEditController::setState">>]

---------------------------------------------------------------------------
(* MemoryStream: data: Vec<u8> and position: usize, the IBStream handed to
   getState and setState. read, write, seek and tell follow the stream
   contract: a read gives the bytes from the position up to the end of the
   data, at most num_bytes of them; a write stores at the position, growing
   the data (with zero bytes when the position is past the end); a seek
   is absolute, relative or from the end and fails on a negative target. *)

Min(a, b) == IF a < b THEN a ELSE b
Max(a, b) == IF a > b THEN a ELSE b

read_past_end_fails(s, num_bytes) ==
    LET available == Max(0, Len(s.data) - s.position)
        count == Min(num_bytes, available)
    IN IF available = 0
       THEN [s |-> s, res |-> "end of stream", out |-> <<>>]
       ELSE [s |-> [s EXCEPT !.position = @ + count],
             res |-> Ok,
             out |-> SubSeq(s.data, s.position + 1, s.position + count)]

read(s, num_bytes) ==
    LET available == Max(0, Len(s.data) - s.position)
        count == Min(num_bytes, available)
    IN [s |-> [s EXCEPT !.position = @ + count],
        res |-> Ok,
        out |-> SubSeq(s.data, s.position + 1, s.position + count)]

write(s, bytes) ==
    LET padded == s.data \o [i \in 1..(s.position - Len(s.data)) |-> 0]
        stop == s.position + Len(bytes)
    IN [s |-> [data |-> SubSeq(padded, 1, s.position) \o bytes
                        \o SubSeq(padded, stop + 1, Len(padded)),
               position |-> stop],
        res |-> Ok]

seek(s, pos, mode) ==
    LET base == IF mode = "start" THEN 0
                ELSE IF mode = "current" THEN s.position
                ELSE Len(s.data)
    IN IF base + pos < 0
       THEN [s |-> s, res |-> "invalid argument"]
       ELSE [s |-> [s EXCEPT !.position = base + pos], res |-> Ok]

tell(s) == s.position

---------------------------------------------------------------------------
(* Vst3Processor: the audio side. A BusInfo is [is_active, channel_count];
   audio_inputs and audio_outputs are the AudioIO buffers, one per channel,
   each max_block_size samples long. The ProcessData built for a block
   holds, per active bus, the indices of the AudioIO buffers its channel
   pointers point to. *)

BlockSize == 2

Bus(is_active, channel_count) ==
    [is_active |-> is_active, channel_count |-> channel_count]

(* The buffers of new()'s step 5: one AudioIO per channel of every bus. *)
RECURSIVE channels(_)
channels(buses) ==
    IF buses = <<>> THEN 0 ELSE Head(buses).channel_count + channels(Tail(buses))

create_bridge(input_buses, output_buses, buffer_size) ==
    [input_buses |-> input_buses,
     output_buses |-> output_buses,
     audio_inputs |-> channels(input_buses),
     audio_outputs |-> [c \in 1..channels(output_buses) |->
                           [i \in 1..buffer_size |-> 0]],
     max_block_size |-> buffer_size]

(* The AudioBusBuffers of the active buses, in bus order: channel ch_idx of
   bus bus_idx points to AudioIO number bus_idx * 2 + ch_idx (from 0). *)
RECURSIVE bus_buffers(_, _)
bus_buffers(buses, bus_idx) ==
    IF bus_idx >= Len(buses) THEN <<>>
    ELSE LET bus == buses[bus_idx + 1]
         IN (IF ~bus.is_active THEN <<>>
             ELSE <<[numChannels |-> bus.channel_count,
                     channelBuffers32 |-> [c \in 1..bus.channel_count |->
                                              bus_idx * 2 + (c - 1)]]>>)
            \o bus_buffers(buses, bus_idx + 1)

(* Heap allocations of one side of prepare_process_data: the Vec of
   AudioBusBuffers allocates at its first push, and the channel_ptrs Vec of
   every active bus with a channel allocates at its first push. Growth
   beyond the first allocation is not counted. *)
vec_allocations(buffers) ==
    (IF buffers = <<>> THEN 0 ELSE 1)
    + Cardinality({i \in 1..Len(buffers) : buffers[i].numChannels > 0})

(* prepare_process_data, audio part: numSamples = frames with no check
   against max_block_size; both Vecs start empty in every block. *)
prepare_process_data_audio(b, frames) ==
    LET inputs == bus_buffers(b.input_buses, 0)
        outputs == bus_buffers(b.output_buses, 0)
    IN [numSamples |-> frames,
        inputs |-> inputs,
        outputs |-> outputs,
        allocations |-> vec_allocations(inputs) + vec_allocations(outputs)]

(* &self.audio_inputs[bus_idx * 2 + ch_idx]: every index of a descriptor is
   below the number of AudioIO buffers; an index beyond panics. *)
slots_exist(buffers, count) ==
    \A k \in 1..Len(buffers) :
        \A c \in 1..buffers[k].numChannels :
            buffers[k].channelBuffers32[c] < count

(* No AudioIO buffer is behind two channel pointers of a descriptor. *)
slots_distinct(buffers) ==
    \A k1, k2 \in 1..Len(buffers) :
        \A c1 \in 1..buffers[k1].numChannels :
            \A c2 \in 1..buffers[k2].numChannels :
                (buffers[k1].channelBuffers32[c1] = buffers[k2].channelBuffers32[c2])
                    => (k1 = k2 /\ c1 = c2)

IndexPanic == "IndexPanic"

(* The stub plugin's process call. When it fails it writes nothing. When
   it succeeds it writes `level`, the value of the block's input samples,
   to the first numSamples samples behind every output channel pointer;
   samples beyond the end of an AudioIO buffer land outside it. *)
native_process(b, data, level, fail) ==
    LET written == UNION {{data.outputs[k].channelBuffers32[c] + 1 :
                              c \in 1..data.outputs[k].numChannels} :
                          k \in 1..Len(data.outputs)}
    IN IF fail
       THEN [audio_outputs |-> b.audio_outputs, ok |-> FALSE, out_of_bounds |-> FALSE]
       ELSE [audio_outputs |->
                [c \in 1..Len(b.audio_outputs) |->
                    IF c \in written
                    THEN [i \in 1..Len(b.audio_outputs[c]) |->
                             IF i <= data.numSamples THEN level
                             ELSE b.audio_outputs[c][i]]
                    ELSE b.audio_outputs[c]],
             ok |-> TRUE,
             out_of_bounds |-> written # {} /\ data.numSamples > b.max_block_size]

(* process_with_audio_io: the inputs are processed, the ProcessData is
   filled, IAudioProcessor::process is called and the outputs are marked
   finished. The buffers are left as the native call left them. *)
process_with_audio_io(b, frames, level, fail) ==
    LET data == prepare_process_data_audio(b, frames)
        r == native_process(b, data, level, fail)
    IN IF ~(slots_exist(data.inputs, b.audio_inputs)
            /\ slots_exist(data.outputs, Len(b.audio_outputs)))
       THEN [b |-> b, res |-> IndexPanic, native |-> <<>>,
             allocations |-> data.allocations, out_of_bounds |-> FALSE,
             fault |-> TRUE]
       ELSE [b |-> [b EXCEPT !.audio_outputs = r.audio_outputs],
             res |-> IF r.ok THEN Ok ELSE NativeFailure,
             native |-> <<[call |-> "IAudioProcessor::process", numSamples |-> frames]>>,
             allocations |-> data.allocations,
             out_of_bounds |-> r.out_of_bounds,
             fault |-> ~r.ok \/ frames > b.max_block_size]

---------------------------------------------------------------------------
(* Vst3Processor: construction and drop *)

NoProcessor == [create_instance("") EXCEPT !.lifecycle = "Unloaded"]

LoadFailure == [res |-> NativeFailure, processor |-> NoProcessor]

new_without_activation(path, failAt) ==
    IF path \notin Bundles \/ failAt # "none" THEN LoadFailure
    ELSE [res |-> Ok,
          processor |-> setup_processing(discover_parameters(
                            initialize(create_instance(path))))]

new_without_setup(path, failAt) ==
    IF path \notin Bundles \/ failAt # "none" THEN LoadFailure
    ELSE [res |-> Ok,
          processor |-> set_active(discover_parameters(
                            initialize(create_instance(path))), TRUE)]

(* Vst3Processor::new: load the factory, create the instance, initialize
   it, query buses and parameters, set up processing, activate. Any step
   may fail; the error is returned and no processor exists. *)
new(path, failAt) ==
    IF path \notin Bundles \/ failAt = "factory" THEN LoadFailure
    ELSE IF failAt = "create" THEN LoadFailure
    ELSE LET created == create_instance(path)
         IN IF failAt = "initialize" THEN LoadFailure
            ELSE LET initialized == discover_parameters(initialize(created))
                 IN IF failAt = "setup" THEN LoadFailure
                    ELSE LET ready == setup_processing(initialized)
                         IN IF failAt = "activate" THEN LoadFailure
                            ELSE [res |-> Ok, processor |-> set_active(ready, TRUE)]

(* impl Drop for Vst3Processor: the body deactivates and terminates the
   component; then the fields of PluginInstance are dropped in declaration
   order: component, audio_processor, edit_controller. The result is the
   sequence of native calls and reference releases. *)
drop(p) ==
    <<"IComponent::setActive(false)", "IComponent::terminate", "release IComponent">>
    \o (IF p.audio_processor THEN <<"release IAudioProcessor">> ELSE <<>>)
    \o (IF p.edit_controller THEN <<"release IEditController">> ELSE <<>>)

---------------------------------------------------------------------------
(* Track: the processors of one track *)

EmptyTrack == [vst3_processors |-> <<>>, next_vst3_instance_id |-> 0]

(* vst3_processors.iter().position(|i| i.id == instance_id), 0 for None *)
instance_position(t, instance_id) ==
    LET hits == {i \in 1..Len(t.vst3_processors) :
                    t.vst3_processors[i].id = instance_id}
    IN IF hits = {} THEN 0 ELSE CHOOSE i \in hits : \A j \in hits : i <= j

load_vst3_plugin_keeps_failed(t, path, failAt) ==
    LET r == new(path, failAt)
        id == t.next_vst3_instance_id
    IN [track |-> [t EXCEPT
                     !.vst3_processors = Append(@, [id |-> id, processor |-> r.processor]),
                     !.next_vst3_instance_id = @ + 1],
        res |-> r.res, id |-> id]

(* load_vst3_plugin: Vst3Processor::new(..)? returns the error before the
   id is taken and before anything is pushed. *)
load_vst3_plugin(t, path, failAt) ==
    LET r == new(path, failAt)
        id == t.next_vst3_instance_id
    IN IF r.res # Ok
       THEN [track |-> t, res |-> r.res, id |-> 0]
       ELSE [track |-> [t EXCEPT
                        !.vst3_processors = Append(@, [id |-> id, processor |-> r.processor]),
                        !.next_vst3_instance_id = @ + 1],
             res |-> Ok, id |-> id]

(* unload_vst3_plugin_instance: the instance is removed from the list and
   dropped there. *)
unload_vst3_plugin_instance(t, instance_id) ==
    LET idx == instance_position(t, instance_id)
        n == Len(t.vst3_processors)
    IN IF idx = 0
       THEN [track |-> t, res |-> InstanceNotFound, dropped |-> <<>>]
       ELSE [track |-> [t EXCEPT !.vst3_processors =
                            SubSeq(@, 1, idx - 1) \o SubSeq(@, idx + 1, n)],
             res |-> Ok,
             dropped |-> drop(t.vst3_processors[idx].processor)]

set_vst3_parameter(t, instance_id, param_id, value) ==
    LET idx == instance_position(t, instance_id)
    IN IF idx = 0
       THEN [track |-> t, res |-> InstanceNotFound]
       ELSE LET r == set_parameter_value(t.vst3_processors[idx].processor, param_id, value)
            IN [track |-> [t EXCEPT !.vst3_processors[idx].processor = r.p],
                res |-> r.res]

vst3_graph_plugins(t) ==
    [i \in 1..Len(t.vst3_processors) |->
        [id |-> t.vst3_processors[i].id,
         name |-> t.vst3_processors[i].processor.plugin_id,
         parameters |-> t.vst3_processors[i].processor.parameters]]

(* The VST3 loop of Track::process: every instance whose audio inputs are
   all ready is processed, in list order. `ready` is the set of instance
   ids whose inputs are ready in this block. *)
process(t, ready) ==
    LET n == Len(t.vst3_processors)
        run(i) == process_with_midi(t.vst3_processors[i].processor, <<>>)
        hit == {i \in 1..n : t.vst3_processors[i].id \in ready}
        calls[i \in 0..n] ==
            IF i = 0 THEN <<>>
            ELSE calls[i - 1] \o
                 (IF i \in hit
                  THEN <<[id |-> t.vst3_processors[i].id, lifecycle |-> run(i).lifecycle]>>
                  ELSE <<>>)
    IN [track |-> [t EXCEPT !.vst3_processors =
                        [i \in 1..n |-> IF i \in hit
                                        THEN [@[i] EXCEPT !.processor = run(i).p]
                                        ELSE @[i]]],
        calls |-> calls[n]]

---------------------------------------------------------------------------
(* SpecParam: one loaded, active processor of the two-parameter plugin and
   the calls a track makes on it. *)

KnownIds == {7, 3}
UnknownIds == {9}
IdInputs == KnownIds \cup UnknownIds
ValidValues == {0, 1, 3}
InvalidValues == {ONE + 2}
ValueInputs == ValidValues \cup InvalidValues
Failures == {"none", "component", "controller"}

StateInputs ==
    {[plugin_id |-> "GAIN", component_state |-> <<ONE>>, controller_state |-> <<ONE>>]}
    \cup {[plugin_id |-> "EQ", component_state |-> <<3, 3>>, controller_state |-> c] :
            c \in {<<>>, <<0, 3>>}}

(* what the stub plugin reports in outputParameterChanges: nothing, or a
   new value of parameter 3 *)
ReportedInputs == {<<>>, <<<<3, 0, 1>>>>}

NoCall == [op |-> "none", id |-> 0, arg |-> 0, state |-> NoState, failing |-> "none",
           res |-> Ok, out |-> 0, native |-> <<>>, points |-> <<>>,
           reported |-> <<>>]

NoSet == [id |-> 0, v |-> 0, stage |-> "none"]

TrackNames == {"Track 1"}

NoReply == [request |-> "none", track_name |-> "", notified |-> FALSE, result |-> "",
            plugins |-> <<>>]

(* The values the variables of the other specifications rest at. *)

NoBridge == create_bridge(<<>>, <<>>, 0)

NoBlock == [n |-> 0, frames |-> 0, level |-> 0, fail |-> FALSE, res |-> Ok,
            native |-> <<>>, allocations |-> 0, out_of_bounds |-> FALSE,
            fault |-> FALSE, faults |-> 0, silent |-> 0]

IdleThreads == [control |-> "idle", request |-> "none", audio |-> "idle",
                idx |-> 0, loaded |-> 0]

FreeLocks == [state |-> "", track |-> "", scalar_values |-> ""]

EmptyLoader == [mapped |-> {}, factories |-> {}, instances |-> <<>>]

NoLifeCall == [op |-> "none", path |-> "", slot |-> 0, res |-> Ok,
               before |-> "", after |-> ""]

EmptyStream == [data |-> <<>>, position |-> 0]

NoIo == [op |-> "none", res |-> Ok, out |-> <<>>, n |-> 0, stage |-> "none",
         written |-> <<>>]

InitBlockIdle == bridge = NoBridge /\ blk = NoBlock

InitLockIdle == threads = IdleThreads /\ locks = FreeLocks

InitLifeIdle == loader = EmptyLoader /\ lifeLast = NoLifeCall

InitStreamIdle == stream = EmptyStream /\ io = NoIo

(* No set call and no block in progress, nothing in the cache. *)
NoRace == [values |-> <<>>, previous_values |-> <<>>, controller |-> <<>>,
           control |-> "idle", set_id |-> 0, set_v |-> 0,
           audio |-> "idle", idx |-> 0, current |-> 0, previous |-> 0,
           points |-> <<>>, ran |-> FALSE, start_previous |-> <<>>,
           clean |-> FALSE, landed |-> "no", landed_id |-> 0, landed_v |-> 0]

(* No clip on screen. *)
NoClip == [start |-> 0, end |-> 0, zoom |-> 0, slider |-> 0,
           active |-> "none", dx |-> 0]

(* No audio track, no App. *)
NoUi == [app |-> FALSE, all |-> <<>>, width |-> 0, drawn |-> <<>>,
         fault |-> FALSE, op |-> "none", active |-> <<"none", 0>>, delta |-> 0]

(* No window. *)
NoView == [visible |-> <<>>, label |-> "", size |-> <<0, 0>>, log |-> <<>>]

InitRaceIdle == race = NoRace

InitGuiIdle == clip = NoClip /\ ui = NoUi /\ view = NoView

InitEngineIdle ==
    /\ tracks = [n \in TrackNames |-> EmptyTrack]
    /\ reply = NoReply
    /\ teardown = <<>>
    /\ processed = <<>>

InitParam ==
    /\ proc = new("eq.vst3", "none").processor
    /\ last = NoCall
    /\ snap = NoState
    /\ rt = NoSet
    /\ InitEngineIdle
    /\ InitRaceIdle
    /\ InitGuiIdle
    /\ InitBlockIdle
    /\ InitLockIdle
    /\ InitLifeIdle
    /\ InitStreamIdle

SetParameter ==
    \E id \in IdInputs, v \in ValueInputs :
        LET r == set_parameter_value(proc, id, v)
        IN /\ proc' = r.p
           /\ last' = [NoCall EXCEPT !.op = "set", !.id = id, !.arg = v,
                                     !.res = r.res, !.native = r.native]
           /\ rt' = IF r.res = Ok THEN [id |-> id, v |-> v, stage |-> "set"] ELSE rt
           /\ snap' = NoState
           /\ UNCHANGED outsideParam

GetParameter ==
    \E id \in IdInputs :
        LET r == get_parameter_value(proc, id)
        IN /\ last' = [NoCall EXCEPT !.op = "get", !.id = id, !.res = r.res,
                                     !.out = r.value]
           /\ UNCHANGED <<proc, snap, rt>>
           /\ UNCHANGED outsideParam

ProcessBlock ==
    \E reported \in ReportedInputs :
        LET r == process_with_midi(proc, reported)
        IN /\ proc' = r.p
           /\ last' = [NoCall EXCEPT !.op = "block", !.native = r.native,
                                     !.points = r.points, !.reported = reported]
           /\ rt' = IF rt.stage = "set" THEN [rt EXCEPT !.stage = "prepared"] ELSE rt
           /\ snap' = NoState
           /\ UNCHANGED outsideParam

SnapshotState ==
    \E failing \in Failures :
        LET r == snapshot_state(proc, failing)
        IN /\ snap' = r.state
           /\ last' = [NoCall EXCEPT !.op = "snapshot", !.failing = failing,
                                     !.res = r.res, !.state = r.state]
           /\ UNCHANGED <<proc, rt>>
           /\ UNCHANGED outsideParam

RestoreState ==
    \E state \in StateInputs \cup ({snap} \ {NoState}), failing \in Failures :
        LET r == restore_state(proc, state, failing)
        IN /\ proc' = r.p
           /\ last' = [NoCall EXCEPT !.op = "restore", !.state = state,
                                     !.failing = failing, !.res = r.res,
                                     !.native = r.native]
           /\ rt' = IF r.res = IdentityMismatch THEN rt ELSE NoSet
           /\ snap' = IF state = snap /\ r.p = proc THEN snap ELSE NoState
           /\ UNCHANGED outsideParam

NextParam ==
    \/ SetParameter
    \/ GetParameter
    \/ ProcessBlock
    \/ SnapshotState
    \/ RestoreState

SpecParam == InitParam /\ [][NextParam]_vars

---------------------------------------------------------------------------
(* Spec: the Engine's handle_action for the VST3 requests and the audio
   thread's Track::process, over the tracks of the engine. *)

MaxLoads == 3

RequestTrackNames == TrackNames \cup {"No such track"}
PathInputs == Bundles \cup {"missing.vst3"}
InstanceIdInputs == 0..MaxLoads
EngineIdInputs == {0, 9}
EngineValueInputs == {3}

InitParamIdle ==
    /\ proc = NoProcessor
    /\ last = NoCall
    /\ snap = NoState
    /\ rt = NoSet

Init ==
    /\ InitEngineIdle
    /\ InitRaceIdle
    /\ InitGuiIdle
    /\ InitParamIdle
    /\ InitBlockIdle
    /\ InitLockIdle
    /\ InitLifeIdle
    /\ InitStreamIdle

(* notify_clients(Ok(..)) or notify_clients(Err(message)) *)
Notified(request, track_name, result) ==
    [request |-> request, track_name |-> track_name, notified |-> TRUE,
     result |-> result, plugins |-> <<>>]

(* the handler returned without calling notify_clients *)
Silent(request, track_name) ==
    [request |-> request, track_name |-> track_name, notified |-> FALSE,
     result |-> "", plugins |-> <<>>]

(* Action::TrackLoadVst3Plugin *)
TrackLoadVst3Plugin ==
    /\ \E track_name \in RequestTrackNames :
        IF track_name \in TrackNames
        THEN /\ tracks[track_name].next_vst3_instance_id < MaxLoads
             /\ \E plugin_path \in PathInputs :
                \E failAt \in (IF plugin_path \in Bundles THEN FailSteps ELSE {"none"}) :
                    LET r == load_vst3_plugin(tracks[track_name], plugin_path, failAt)
                    IN /\ tracks' = [tracks EXCEPT ![track_name] = r.track]
                       /\ reply' = Notified("TrackLoadVst3Plugin", track_name,
                                        IF r.res = Ok THEN Ok ELSE "Failed to load plugin")
        ELSE /\ tracks' = tracks
             /\ reply' = Notified("TrackLoadVst3Plugin", track_name,
                                  "Failed to load plugin")
    /\ teardown' = <<>>
    /\ processed' = <<>>
    /\ UNCHANGED outsideEngine

(* Action::TrackUnloadVst3PluginInstance *)
TrackUnloadVst3PluginInstance ==
    /\ \E track_name \in RequestTrackNames :
        IF track_name \in TrackNames
        THEN \E instance_id \in InstanceIdInputs :
                LET r == unload_vst3_plugin_instance(tracks[track_name], instance_id)
                IN /\ tracks' = [tracks EXCEPT ![track_name] = r.track]
                   /\ teardown' = r.dropped
                   /\ reply' = Notified("TrackUnloadVst3PluginInstance", track_name,
                                    IF r.res = Ok THEN Ok ELSE "Failed to unload plugin")
        ELSE /\ tracks' = tracks
             /\ teardown' = <<>>
             /\ reply' = Notified("TrackUnloadVst3PluginInstance", track_name,
                                  "Failed to unload plugin")
    /\ processed' = <<>>
    /\ UNCHANGED outsideEngine

(* Action::TrackGetVst3Graph: answered only inside `if let Some(track)` *)
TrackGetVst3Graph ==
    /\ \E track_name \in RequestTrackNames :
        reply' = IF track_name \in TrackNames
                 THEN [Notified("TrackGetVst3Graph", track_name, "TrackVst3Graph")
                         EXCEPT !.plugins = vst3_graph_plugins(tracks[track_name])]
                 ELSE Silent("TrackGetVst3Graph", track_name)
    /\ tracks' = tracks
    /\ teardown' = <<>>
    /\ processed' = <<>>
    /\ UNCHANGED outsideEngine

(* Action::TrackSetVst3Parameter *)
TrackSetVst3Parameter ==
    /\ \E track_name \in RequestTrackNames :
        IF track_name \in TrackNames
        THEN \E instance_id \in InstanceIdInputs, param_id \in EngineIdInputs,
                value \in EngineValueInputs :
                LET r == set_vst3_parameter(tracks[track_name], instance_id,
                                            param_id, value)
                IN /\ tracks' = [tracks EXCEPT ![track_name] = r.track]
                   /\ reply' = Notified("TrackSetVst3Parameter", track_name,
                                    IF r.res = Ok THEN Ok ELSE "Failed to set parameter")
        ELSE /\ tracks' = tracks
             /\ reply' = Notified("TrackSetVst3Parameter", track_name,
                                  "Failed to set parameter")
    /\ teardown' = <<>>
    /\ processed' = <<>>
    /\ UNCHANGED outsideEngine

(* One block of the audio thread on one track; any subset of the loaded
   instances has its inputs ready. *)
TrackProcess ==
    /\ \E track_name \in TrackNames :
        \E ready \in SUBSET {tracks[track_name].vst3_processors[i].id :
                                i \in 1..Len(tracks[track_name].vst3_processors)} :
            LET r == process(tracks[track_name], ready)
            IN /\ tracks' = [tracks EXCEPT ![track_name] = r.track]
               /\ processed' = r.calls
    /\ reply' = NoReply
    /\ teardown' = <<>>
    /\ UNCHANGED outsideEngine

Next ==
    \/ TrackLoadVst3Plugin
    \/ TrackUnloadVst3PluginInstance
    \/ TrackGetVst3Graph
    \/ TrackSetVst3Parameter
    \/ TrackProcess

Spec == Init /\ [][Next]_vars

---------------------------------------------------------------------------
(* Properties of Spec *)

Pos(log, entry) ==
    LET hits == {i \in 1..Len(log) : log[i] = entry}
    IN IF hits = {} THEN 0 ELSE CHOOSE i \in hits : \A j \in hits : i <= j

(* C1: the teardown of an instance releases the processing facet, then the
   controller facet, then calls terminate on the component, then releases
   the component; a deactivation, when there is one, comes first. *)
C1_TeardownOrder ==
    teardown # <<>> =>
        LET deactivate == Pos(teardown, "IComponent::setActive(false)")
            processing == Pos(teardown, "release IAudioProcessor")
            controller == Pos(teardown, "release IEditController")
            terminate == Pos(teardown, "IComponent::terminate")
            component == Pos(teardown, "release IComponent")
        IN /\ 0 < processing /\ processing < controller
           /\ controller < terminate /\ terminate < component
           /\ deactivate < processing

(* C2: the native process call is only issued to an instance whose
   component is Active. *)
C2_ProcessOnlyWhileActive ==
    \A k \in 1..Len(processed) : processed[k].lifecycle = "Active"

C2_Witness ==
    /\ Len(processed) = 2
    /\ processed[1].id # 0
    /\ \A k \in 1..2 : processed[k].lifecycle = "Active"

(* C15: every instance that is Active was set up for processing before it
   was activated. *)
C15_SetupBeforeActive ==
    \A n \in TrackNames :
        \A i \in 1..Len(tracks[n].vst3_processors) :
            tracks[n].vst3_processors[i].processor.lifecycle = "Active"
                => tracks[n].vst3_processors[i].processor.setup

C15_Witness ==
    /\ reply.request = "TrackLoadVst3Plugin"
    /\ reply.result = Ok
    /\ \E n \in TrackNames :
          /\ Len(tracks[n].vst3_processors) = 1
          /\ tracks[n].vst3_processors[1].processor.lifecycle = "Active"
          /\ tracks[n].vst3_processors[1].processor.setup

(* C17: a load that fails is answered with an error and leaves the list of
   loaded instances of every track as it was. *)
C17_FailedLoadRetainsNothing ==
    [][(reply'.request = "TrackLoadVst3Plugin" /\ reply'.result # Ok)
        => /\ reply'.notified
           /\ reply'.result = "Failed to load plugin"
           /\ \A n \in TrackNames :
                 tracks'[n].vst3_processors = tracks[n].vst3_processors]_vars

C17_Witness ==
    /\ reply.request = "TrackLoadVst3Plugin"
    /\ reply.result = "Failed to load plugin"
    /\ reply.track_name \in TrackNames
    /\ Len(tracks[reply.track_name].vst3_processors) = 1
    /\ tracks[reply.track_name].next_vst3_instance_id = 1

(* C9: every control-plane request is answered: notify_clients is called
   with the success variant or with an error message. *)
C9_EveryRequestAnswered ==
    reply.request # "none" => (reply.notified /\ reply.result # "")

---------------------------------------------------------------------------
(* Properties of SpecParam *)

IsCall(op) == last'.op = op

(* C3: restore_state with a state of another plugin id fails with the id
   mismatch error, calls no native setState and leaves the cache and the
   plugin's component and controller state as they were. *)
C3_IdentityMismatchRejected ==
    [][(IsCall("restore") /\ last'.state.plugin_id # proc.plugin_id)
        => /\ last'.res = IdentityMismatch
           /\ last'.native = <<>>
           /\ proc' = proc]_vars

C3_Witness ==
    /\ last.op = "restore"
    /\ last.state.plugin_id # proc.plugin_id
    /\ last.res = IdentityMismatch
    /\ proc.scalar_values # PluginDefaults("eq.vst3")

(* C18: after a restore_state that succeeds, the cached value of every
   parameter is the value the controller reports for it, and the parameter
   list is the one it was. *)
C18_CacheResyncedAfterRestore ==
    [][(IsCall("restore") /\ last'.res = Ok)
        => /\ proc'.parameters = proc.parameters
           /\ \A i \in 1..Len(proc'.parameters) :
                 proc'.scalar_values[i] = getParamNormalized(proc', proc'.parameters[i])]_vars

C18_Witness ==
    /\ last.op = "restore"
    /\ last.res = Ok
    /\ last.state.controller_state = <<0, 3>>
    /\ proc.scalar_values = <<0, 3>>
    /\ proc.previous_values # <<0, 3>>

(* C21: the parameter list, the cache of current values and the cache of
   last-forwarded values have the same length, and the parameter list is
   the one enumerated at discovery, in that order, after any sequence of
   set, get, block, snapshot and restore. *)
C21_CachesPairedWithParameters ==
    /\ Len(proc.scalar_values) = Len(proc.parameters)
    /\ Len(proc.previous_values) = Len(proc.parameters)
    /\ proc.parameters = PluginParams(proc.path)

C21_Witness ==
    /\ last.op = "block"
    /\ Len(last.points) = 2
    /\ Len(proc.parameters) = 2
    /\ Len(proc.scalar_values) = 2
    /\ Len(proc.previous_values) = 2

(* C22: after a block, the cached value of every parameter the plugin
   reported a change for is the reported value, and the cached value of
   every other parameter is what it was. *)
C22_OutputChangesReachCache ==
    [][IsCall("block") =>
        \A i \in 1..Len(proc.parameters) :
            LET mine == {k \in 1..Len(last'.reported) :
                            last'.reported[k][1] = proc.parameters[i]}
            IN IF mine = {}
               THEN proc'.scalar_values[i] = proc.scalar_values[i]
               ELSE \E k \in mine : proc'.scalar_values[i] = last'.reported[k][3]]_vars

(* C4: a restore_state that fails for any reason leaves the component
   state, the controller state and the parameter cache as they were. *)
C4_FailedRestoreLeavesStateUntouched ==
    [][(IsCall("restore") /\ last'.res # Ok) => proc' = proc]_vars

(* C5, as claimed: an accepted set on a known id with a value in [0,1]
   makes no native call: the plugin is sent nothing before the next block. *)
C5_SetSendsNothing ==
    (last.op = "set" /\ last.res = Ok /\ InRange(last.arg)) => last.native = <<>>

(* C5, amended: an accepted set writes the cache slot of the id and hands
   the value to the controller facet only; the processing facet's value and
   the last-forwarded values do not change, and no automation point exists
   until the next block is prepared. *)
C5_SetReachesControllerOnly ==
    [][(IsCall("set") /\ last'.res = Ok /\ InRange(last'.arg))
        => LET idx == position(proc.parameters, last'.id)
           IN /\ proc'.scalar_values[idx] = last'.arg
              /\ \A i \in 1..Len(proc.parameters) :
                    i # idx => proc'.scalar_values[i] = proc.scalar_values[i]
              /\ last'.native = <<"IEditController::setParamNormalized">>
              /\ last'.points = <<>>
              /\ proc'.component = proc.component
              /\ proc'.previous_values = proc.previous_values]_vars

C5_Witness ==
    /\ last.op = "set" /\ last.res = Ok /\ InRange(last.arg)
    /\ proc.scalar_values[position(proc.parameters, last.id)] = last.arg
    /\ proc.component[position(proc.parameters, last.id)] # last.arg

(* The automation points a block must carry: one per parameter whose cached
   value is more than EPSILON away from the last-forwarded one. *)
PointsAreTheDeltas(p, points) ==
    /\ \A i \in 1..Len(p.parameters) :
          LET mine == {k \in 1..Len(points) : points[k][1] = p.parameters[i]}
          IN IF Abs(p.scalar_values[i] - p.previous_values[i]) > EPSILON
             THEN /\ Cardinality(mine) = 1
                  /\ \A k \in mine : points[k] = <<p.parameters[i], 0, p.scalar_values[i]>>
             ELSE mine = {}
    /\ \A k \in 1..Len(points) : position(p.parameters, points[k][1]) # 0

(* C6, as claimed: the points of a block are exactly the deltas, and when
   the block is prepared the last-forwarded value of every parameter equals
   its cached value. *)
C6_PreviousEqualsCurrentAfterBlock ==
    [][IsCall("block")
        => /\ PointsAreTheDeltas(proc, last'.points)
           /\ proc'.previous_values = proc'.scalar_values]_vars

(* C6, amended: the points of a block are exactly the deltas; afterwards a
   parameter that got a point has last-forwarded = cached, any other keeps
   its last-forwarded value, which is within EPSILON of the cached one; so
   a block prepared right after carries no point. *)
C6_PrepareBlockForwardsDeltas ==
    [][IsCall("block")
        => /\ PointsAreTheDeltas(proc, last'.points)
           /\ proc'.scalar_values = proc.scalar_values
           /\ \A i \in 1..Len(proc.parameters) :
                 /\ Abs(proc'.scalar_values[i] - proc'.previous_values[i]) <= EPSILON
                 /\ IF Abs(proc.scalar_values[i] - proc.previous_values[i]) > EPSILON
                    THEN proc'.previous_values[i] = proc.scalar_values[i]
                    ELSE proc'.previous_values[i] = proc.previous_values[i]
           /\ (last.op = "block" => last'.points = <<>>)]_vars

C6_Witness ==
    /\ last.op = "block"
    /\ Len(last.points) = 1
    /\ \E i \in 1..Len(proc.parameters) :
          /\ proc.previous_values[i] # proc.scalar_values[i]
          /\ last.points[1][1] # proc.parameters[i]

(* C7: after an accepted set(id, v) with v in [0,1] and a block prepared
   after it, get(id) returns v. *)
C7_ParameterRoundTrip ==
    (last.op = "get" /\ rt.stage = "prepared" /\ last.id = rt.id /\ InRange(rt.v))
        => (last.res = Ok /\ last.out = rt.v)

C7_Witness ==
    /\ last.op = "get" /\ rt.stage = "prepared" /\ last.id = rt.id
    /\ InRange(rt.v)
    /\ last.out = rt.v
    /\ rt.v # PluginDefaults("eq.vst3")[position(proc.parameters, rt.id)]

(* C8: restoring the snapshot just taken of the processor, with no native
   failure, succeeds and leaves the parameter cache and the plugin's
   component and controller state as they were. *)
C8_StateRoundTrip ==
    [][(IsCall("restore") /\ snap # NoState /\ last'.state = snap
            /\ last'.failing = "none")
        => /\ last'.res = Ok
           /\ proc'.scalar_values = proc.scalar_values
           /\ proc'.component = proc.component
           /\ proc'.controller = proc.controller]_vars

C8_Witness ==
    /\ last.op = "restore" /\ last.res = Ok /\ last.state = snap
    /\ snap # NoState
    /\ proc.component # proc.controller
    /\ proc.scalar_values # PluginDefaults("eq.vst3")

(* C10: a get or set with an unknown id fails with the not-found error, a
   set with a value outside [0,1] is rejected, and a rejected call changes
   neither cache nor plugin and makes no native call. *)
C10_BadParameterCallsRejected ==
    [][/\ (IsCall("get") /\ last'.id \notin KnownIds) => last'.res = ParameterNotFound
       /\ (IsCall("set") /\ (last'.id \notin KnownIds \/ ~InRange(last'.arg)))
            => /\ last'.res # Ok
               /\ last'.native = <<>>
               /\ proc' = proc]_vars

---------------------------------------------------------------------------
(* SpecBlock: the audio thread processing blocks on one processor whose
   buses were negotiated at load and whose AudioIO buffers were sized
   by setup_processing(sample_rate, BlockSize). *)

MaxBlocks == 3

InputLayouts ==
    {<<Bus(TRUE, 2)>>, <<Bus(TRUE, 2), Bus(FALSE, 2)>>, <<Bus(FALSE, 2)>>,
     <<Bus(TRUE, 1)>>, <<Bus(FALSE, 2), Bus(TRUE, 2)>>,
     <<Bus(TRUE, 1), Bus(TRUE, 1)>>, <<Bus(TRUE, 3), Bus(TRUE, 2)>>}
OutputLayout == <<Bus(TRUE, 2)>>
FrameInputs == 1..(BlockSize + 1)
Levels == {1, 2}

all_zero(b) ==
    \A c \in 1..Len(b.audio_outputs) :
        \A i \in 1..Len(b.audio_outputs[c]) : b.audio_outputs[c][i] = 0

InitBlock ==
    /\ \E input_buses \in InputLayouts :
          bridge = create_bridge(input_buses, OutputLayout, BlockSize)
    /\ blk = NoBlock
    /\ InitParamIdle
    /\ InitEngineIdle
    /\ InitRaceIdle
    /\ InitGuiIdle
    /\ InitLockIdle
    /\ InitLifeIdle
    /\ InitStreamIdle

(* One iteration of the loop of Track::process on a ready instance: the
   Result of process_with_audio_io is dropped by the caller. *)
ProcessAudioBlock ==
    /\ blk.n < MaxBlocks
    /\ \E frames \in FrameInputs, level \in Levels, fail \in BOOLEAN :
        LET r == process_with_audio_io(bridge, frames, level, fail)
        IN /\ bridge' = r.b
           /\ blk' = [n |-> blk.n + 1, frames |-> frames, level |-> level,
                      fail |-> fail, res |-> r.res, native |-> r.native,
                      allocations |-> r.allocations,
                      out_of_bounds |-> r.out_of_bounds,
                      fault |-> r.fault,
                      faults |-> blk.faults + (IF r.fault THEN 1 ELSE 0),
                      silent |-> blk.silent +
                                 (IF r.fault /\ all_zero(r.b) THEN 1 ELSE 0)]
    /\ UNCHANGED outsideBlock

NextBlock == ProcessAudioBlock

SpecBlock == InitBlock /\ [][NextBlock]_vars

---------------------------------------------------------------------------
(* Properties of SpecBlock *)

(* C11: a block of more frames than max_block_size fails with
   BlockTooLarge, the native process call is not made and no buffer is
   written; a block of at most max_block_size frames is not rejected for
   its size. *)
C11_BlockTooLargeFailsFast ==
    [][blk'.n # blk.n =>
        IF blk'.frames > bridge.max_block_size
        THEN /\ blk'.res = "BlockTooLarge"
             /\ blk'.native = <<>>
             /\ ~blk'.out_of_bounds
             /\ bridge' = bridge
        ELSE blk'.res # "BlockTooLarge"]_vars

(* C12: a block whose native call failed, or that was too large, leaves
   all-zero output buffers, and the number of such silent blocks is the
   number of faults so far. *)
C12_SilenceOnFault ==
    /\ blk.fault => all_zero(bridge)
    /\ blk.silent = blk.faults

(* C20: from the second block on, building the bus-buffer descriptor
   performs no heap allocation. *)
C20_NoBlockRateAllocation ==
    blk.n >= 2 => blk.allocations = 0

(* C29: in the descriptor built for a block, the AudioIO slot of channel c
   of bus b, b * 2 + c, exists in the instance's buffer list and no slot
   is used by two (bus, channel) pairs, whatever the negotiated layout. *)
C29_ChannelSlotsExistAndDistinct ==
    blk.n > 0 =>
        LET data == prepare_process_data_audio(bridge, blk.frames)
        IN /\ slots_exist(data.inputs, bridge.audio_inputs)
           /\ slots_exist(data.outputs, Len(bridge.audio_outputs))
           /\ slots_distinct(data.inputs)
           /\ slots_distinct(data.outputs)

---------------------------------------------------------------------------
(* SpecLock: the mutexes of the control plane. Engine::handle_action runs
   on the control thread: `self.state.lock()` and `track.lock()` are
   temporaries of one statement, so both guards live until the track method
   has returned. The audio thread reaches Track::process and the processors
   through the same track mutex; inside a block prepare_process_data takes
   the scalar_values mutex once per parameter, for one read. *)

MaxLoaded == 2
NParams == 2

Requests == {"TrackLoadVst3Plugin", "TrackUnloadVst3PluginInstance",
             "TrackSetVst3Parameter"}

(* the positions of the control thread that are inside a blocking
   operation: Vst3Processor::new loads the shared library from disk *)
BlockingPositions == {"Vst3Processor::new"}

(* the mutexes the audio thread acquires on its per-block path *)
AudioLocks == {"track", "scalar_values"}

InitLock ==
    /\ threads = IdleThreads
    /\ locks = FreeLocks
    /\ InitParamIdle
    /\ InitEngineIdle
    /\ InitRaceIdle
    /\ InitGuiIdle
    /\ InitBlockIdle
    /\ InitLifeIdle
    /\ InitStreamIdle

(* a request arrives at handle_action *)
ControlReceive ==
    /\ threads.control = "idle"
    /\ \E request \in Requests :
          threads' = [threads EXCEPT !.control = "state.lock", !.request = request]
    /\ UNCHANGED locks
    /\ UNCHANGED outsideLock

(* self.state.lock() *)
ControlLockState ==
    /\ threads.control = "state.lock"
    /\ locks.state = ""
    /\ locks' = [locks EXCEPT !.state = "control"]
    /\ threads' = [threads EXCEPT !.control = "track.lock"]
    /\ UNCHANGED outsideLock

(* track.lock(), then the track method of the request is entered *)
ControlLockTrack ==
    /\ threads.control = "track.lock"
    /\ locks.track = ""
    /\ locks' = [locks EXCEPT !.track = "control"]
    /\ threads' = [threads EXCEPT !.control =
          IF threads.request = "TrackLoadVst3Plugin" THEN "Vst3Processor::new"
          ELSE IF threads.request = "TrackUnloadVst3PluginInstance" THEN "remove"
          ELSE IF threads.loaded = 0 THEN "unlock"
          ELSE "scalar_values.lock"]
    /\ UNCHANGED outsideLock

(* load_vst3_plugin: Vst3Processor::new returns, the instance is pushed *)
ControlLoad ==
    /\ threads.control = "Vst3Processor::new"
    /\ threads' = [threads EXCEPT !.control = "unlock",
                                  !.loaded = IF @ < MaxLoaded THEN @ + 1 ELSE @]
    /\ UNCHANGED locks
    /\ UNCHANGED outsideLock

(* unload_vst3_plugin_instance: the instance is removed and dropped *)
ControlUnload ==
    /\ threads.control = "remove"
    /\ threads' = [threads EXCEPT !.control = "unlock",
                                  !.loaded = IF @ > 0 THEN @ - 1 ELSE @]
    /\ UNCHANGED locks
    /\ UNCHANGED outsideLock

(* set_parameter_value: self.scalar_values.lock()[idx] = normalized_value *)
ControlLockCache ==
    /\ threads.control = "scalar_values.lock"
    /\ locks.scalar_values = ""
    /\ locks' = [locks EXCEPT !.scalar_values = "control"]
    /\ threads' = [threads EXCEPT !.control = "write"]
    /\ UNCHANGED outsideLock

ControlWriteCache ==
    /\ threads.control = "write"
    /\ locks' = [locks EXCEPT !.scalar_values = ""]
    /\ threads' = [threads EXCEPT !.control = "setParamNormalized"]
    /\ UNCHANGED outsideLock

(* set_parameter_value: the native setParamNormalized call *)
ControlSetController ==
    /\ threads.control = "setParamNormalized"
    /\ threads' = [threads EXCEPT !.control = "unlock"]
    /\ UNCHANGED locks
    /\ UNCHANGED outsideLock

(* end of the statement: the track guard, then the state guard are dropped *)
ControlUnlock ==
    /\ threads.control = "unlock"
    /\ locks' = [locks EXCEPT !.track = "", !.state = ""]
    /\ threads' = [threads EXCEPT !.control = "notify_clients"]
    /\ UNCHANGED outsideLock

ControlNotify ==
    /\ threads.control = "notify_clients"
    /\ threads' = [threads EXCEPT !.control = "idle", !.request = "none"]
    /\ UNCHANGED locks
    /\ UNCHANGED outsideLock

(* the audio thread enters Track::process for a block *)
AudioLockTrack ==
    /\ threads.audio = "idle"
    /\ locks.track = ""
    /\ locks' = [locks EXCEPT !.track = "audio"]
    /\ threads' = IF threads.loaded = 0
                  THEN [threads EXCEPT !.audio = "unlock"]
                  ELSE [threads EXCEPT !.audio = "scalar_values.lock", !.idx = 1]
    /\ UNCHANGED outsideLock

(* prepare_process_data: let current = self.scalar_values.lock()[idx] *)
AudioLockCache ==
    /\ threads.audio = "scalar_values.lock"
    /\ locks.scalar_values = ""
    /\ locks' = [locks EXCEPT !.scalar_values = "audio"]
    /\ threads' = [threads EXCEPT !.audio = "read"]
    /\ UNCHANGED outsideLock

AudioReadCache ==
    /\ threads.audio = "read"
    /\ locks' = [locks EXCEPT !.scalar_values = ""]
    /\ threads' = IF threads.idx < NParams
                  THEN [threads EXCEPT !.audio = "scalar_values.lock", !.idx = @ + 1]
                  ELSE [threads EXCEPT !.audio = "process", !.idx = 0]
    /\ UNCHANGED outsideLock

(* the native IAudioProcessor::process call *)
AudioProcess ==
    /\ threads.audio = "process"
    /\ threads' = [threads EXCEPT !.audio = "unlock"]
    /\ UNCHANGED locks
    /\ UNCHANGED outsideLock

AudioUnlockTrack ==
    /\ threads.audio = "unlock"
    /\ locks' = [locks EXCEPT !.track = ""]
    /\ threads' = [threads EXCEPT !.audio = "idle"]
    /\ UNCHANGED outsideLock

NextLock ==
    \/ ControlReceive
    \/ ControlLockState
    \/ ControlLockTrack
    \/ ControlLoad
    \/ ControlUnload
    \/ ControlLockCache
    \/ ControlWriteCache
    \/ ControlSetController
    \/ ControlUnlock
    \/ ControlNotify
    \/ AudioLockTrack
    \/ AudioLockCache
    \/ AudioReadCache
    \/ AudioProcess
    \/ AudioUnlockTrack

SpecLock == InitLock /\ [][NextLock]_vars

---------------------------------------------------------------------------
(* Properties of SpecLock *)

(* C13: while the control thread is inside a blocking operation it holds
   no mutex the audio thread acquires, and the scalar_values mutex is held
   only for one cache update (control thread) or one read of the compare
   (audio thread). *)
C13_NoLockAcrossBlocking ==
    /\ threads.control \in BlockingPositions =>
          \A l \in AudioLocks : locks[l] # "control"
    /\ locks.scalar_values = "control" => threads.control = "write"
    /\ locks.scalar_values = "audio" => threads.audio = "read"

---------------------------------------------------------------------------
(* SpecLife: the wrappers of interfaces.rs called in any order: factories
   made from bundles, instances created from them, the lifecycle calls of
   PluginInstance, and the release of instances and factories. *)

MaxInstances == 2

LifecycleOps == {"initialize", "setup_processing", "set_active"}

InitLife ==
    /\ loader = EmptyLoader
    /\ lifeLast = NoLifeCall
    /\ InitParamIdle
    /\ InitEngineIdle
    /\ InitRaceIdle
    /\ InitGuiIdle
    /\ InitBlockIdle
    /\ InitLockIdle
    /\ InitStreamIdle

LifeCall(op, path, slot, res, before, after) ==
    [op |-> op, path |-> path, slot |-> slot, res |-> res,
     before |-> before, after |-> after]

(* PluginFactory::from_module *)
FromModule ==
    /\ \E module_path \in PathInputs :
        LET r == from_module(loader, module_path)
        IN /\ loader' = r.l
           /\ lifeLast' = LifeCall("from_module", module_path, 0, r.res, "", "")
    /\ UNCHANGED outsideLife

(* PluginFactory::create_instance on a live factory. The factory's code is
   in a library that may be unmapped by now: the call through the dangling
   pointer either still works or crashes. *)
CreateInstance ==
    /\ Len(loader.instances) < MaxInstances
    /\ \E path \in loader.factories :
        \E outcome \in (IF path \in loader.mapped THEN {"works"}
                        ELSE {"works", "crashes"}) :
            IF outcome = "works"
            THEN /\ loader' = [loader EXCEPT
                                 !.instances = Append(@, create_instance(path))]
                 /\ lifeLast' = LifeCall("create_instance", path,
                                         Len(loader.instances) + 1, Ok, "", "Created")
            ELSE /\ loader' = loader
                 /\ lifeLast' = LifeCall("create_instance", path, 0,
                                         "use after unmap", "", "")
    /\ UNCHANGED outsideLife

(* PluginInstance::initialize; the native call may fail (`?`) *)
Initialize ==
    /\ \E slot \in 1..Len(loader.instances), fails \in BOOLEAN :
        LET p == loader.instances[slot]
            q == IF fails THEN p ELSE initialize(p)
        IN /\ loader' = [loader EXCEPT !.instances[slot] = q]
           /\ lifeLast' = LifeCall("initialize", p.path, slot,
                                   IF fails THEN NativeFailure ELSE Ok,
                                   p.lifecycle, q.lifecycle)
    /\ UNCHANGED outsideLife

(* PluginInstance::setup_processing; without a processing facet there is
   nothing to call *)
SetupProcessing ==
    /\ \E slot \in 1..Len(loader.instances), fails \in BOOLEAN :
        LET p == loader.instances[slot]
            q == IF fails THEN p ELSE setup_processing(p)
        IN /\ loader' = [loader EXCEPT !.instances[slot] = q]
           /\ lifeLast' = LifeCall("setup_processing", p.path, slot,
                                   IF ~p.audio_processor THEN "No audio processor"
                                   ELSE IF fails THEN NativeFailure ELSE Ok,
                                   p.lifecycle, q.lifecycle)
    /\ UNCHANGED outsideLife

(* PluginInstance::set_active *)
SetActive ==
    /\ \E slot \in 1..Len(loader.instances), active \in BOOLEAN, fails \in BOOLEAN :
        LET p == loader.instances[slot]
            q == IF fails THEN p ELSE set_active(p, active)
        IN /\ loader' = [loader EXCEPT !.instances[slot] = q]
           /\ lifeLast' = LifeCall("set_active", p.path, slot,
                                   IF fails THEN NativeFailure ELSE Ok,
                                   p.lifecycle, q.lifecycle)
    /\ UNCHANGED outsideLife

(* a PluginInstance is dropped: its ComPtrs are released *)
ReleaseInstance ==
    /\ \E slot \in 1..Len(loader.instances) :
        LET n == Len(loader.instances)
        IN /\ loader' = [loader EXCEPT !.instances =
                            SubSeq(@, 1, slot - 1) \o SubSeq(@, slot + 1, n)]
           /\ lifeLast' = LifeCall("release instance", loader.instances[slot].path,
                                   slot, Ok, loader.instances[slot].lifecycle, "")
    /\ UNCHANGED outsideLife

(* a PluginFactory is dropped: its ComPtr is released *)
ReleaseFactory ==
    /\ \E path \in loader.factories :
        /\ loader' = [loader EXCEPT !.factories = @ \ {path}]
        /\ lifeLast' = LifeCall("release factory", path, 0, Ok, "", "")
    /\ UNCHANGED outsideLife

NextLife ==
    \/ FromModule
    \/ CreateInstance
    \/ Initialize
    \/ SetupProcessing
    \/ SetActive
    \/ ReleaseInstance
    \/ ReleaseFactory

SpecLife == InitLife /\ [][NextLife]_vars

---------------------------------------------------------------------------
(* Properties of SpecLife *)

(* C14: the library of a bundle is mapped as long as a factory or an
   instance made from that bundle is alive. *)
C14_LibraryMappedWhileInUse ==
    \A path \in Bundles :
        (\/ path \in loader.factories
         \/ \E i \in 1..Len(loader.instances) : loader.instances[i].path = path)
        => path \in loader.mapped

(* C16: initialize on an instance that is not in Created fails with
   AlreadyInitialized; setup_processing and set_active on an instance that
   is still in Created fail with NotInitialized; a lifecycle call that
   fails leaves the instance in the state it had or in Terminated. *)
C16_LifecycleErrorsAreTyped ==
    /\ (lifeLast.op = "initialize" /\ lifeLast.before # "Created")
          => lifeLast.res = "AlreadyInitialized"
    /\ (lifeLast.op \in {"setup_processing", "set_active"}
        /\ lifeLast.before = "Created")
          => lifeLast.res = "NotInitialized"
    /\ (lifeLast.op \in LifecycleOps /\ lifeLast.res # Ok)
          => lifeLast.after \in {lifeLast.before, "Terminated"}

---------------------------------------------------------------------------
(* SpecStream: one MemoryStream, fresh from MemoryStream::new(), and the
   calls a plugin makes on it. io.written and io.stage follow bytes written
   from position 0 on: "written" while the writes are contiguous, "rewound"
   once seek(0, start) follows them. *)

MaxStream == 3

WriteInputs == {<<1>>, <<2>>, <<1, 2>>}
SeekModes == {"start", "current", "end"}

InitStream ==
    /\ stream = EmptyStream
    /\ io = NoIo
    /\ InitParamIdle
    /\ InitEngineIdle
    /\ InitRaceIdle
    /\ InitGuiIdle
    /\ InitBlockIdle
    /\ InitLockIdle
    /\ InitLifeIdle

StreamWrite ==
    /\ \E bytes \in WriteInputs :
        LET r == write(stream, bytes)
        IN /\ Len(r.s.data) <= MaxStream
           /\ stream' = r.s
           /\ io' = [NoIo EXCEPT
                       !.op = "write", !.res = r.res, !.n = Len(bytes),
                       !.stage = IF stream.position = 0
                                    \/ (io.stage = "written"
                                        /\ stream.position = Len(io.written))
                                 THEN "written" ELSE "none",
                       !.written = IF stream.position = 0 THEN bytes
                                   ELSE IF io.stage = "written"
                                           /\ stream.position = Len(io.written)
                                   THEN io.written \o bytes
                                   ELSE <<>>]
    /\ UNCHANGED outsideStream

StreamSeek ==
    /\ \E pos \in (0 - MaxStream)..MaxStream, mode \in SeekModes :
        LET r == seek(stream, pos, mode)
        IN /\ r.s.position <= MaxStream
           /\ stream' = r.s
           /\ io' = [NoIo EXCEPT
                       !.op = "seek", !.res = r.res, !.n = pos,
                       !.stage = IF io.stage \in {"written", "rewound"}
                                    /\ r.res = Ok /\ r.s.position = 0
                                 THEN "rewound" ELSE "none",
                       !.written = IF io.stage \in {"written", "rewound"}
                                      /\ r.res = Ok /\ r.s.position = 0
                                   THEN io.written ELSE <<>>]
    /\ UNCHANGED outsideStream

StreamRead ==
    /\ \E num_bytes \in 0..MaxStream :
        LET r == read(stream, num_bytes)
        IN /\ stream' = r.s
           /\ io' = [NoIo EXCEPT !.op = "read", !.res = r.res, !.out = r.out,
                                 !.n = num_bytes]
    /\ UNCHANGED outsideStream

StreamTell ==
    /\ io' = [io EXCEPT !.op = "tell", !.res = Ok, !.out = <<>>,
                        !.n = tell(stream)]
    /\ stream' = stream
    /\ UNCHANGED outsideStream

NextStream ==
    \/ StreamWrite
    \/ StreamSeek
    \/ StreamRead
    \/ StreamTell

SpecStream == InitStream /\ [][NextStream]_vars

---------------------------------------------------------------------------
(* Properties of SpecStream *)

(* C19: a read never fails; it returns the stored bytes from the position
   on, at most as many as remain, and advances the position by the number
   returned; at or past the end it returns nothing and changes nothing;
   bytes written from position 0 and read back after seek(0, start) are
   the bytes written. *)
C19_ReadNeverFails ==
    [][io'.op = "read" =>
        LET remain == Max(0, Len(stream.data) - stream.position)
        IN /\ io'.res = Ok
           /\ Len(io'.out) = Min(io'.n, remain)
           /\ \A i \in 1..Len(io'.out) : io'.out[i] = stream.data[stream.position + i]
           /\ stream'.position = stream.position + Len(io'.out)
           /\ stream'.data = stream.data
           /\ stream.position >= Len(stream.data)
                 => (io'.out = <<>> /\ stream' = stream)
           /\ (io.stage = "rewound" /\ io'.n = Len(io.written))
                 => io'.out = io.written]_vars

C19_Witness ==
    /\ io.op = "read"
    /\ io.n = 3
    /\ io.out = <<2, 1>>
    /\ stream.data = <<1, 2, 1>>
    /\ stream.position = 3

---------------------------------------------------------------------------
(* SpecRace: set_parameter_value on the control thread against the
   parameter loop of prepare_process_data on the real-time thread, one
   mutex-protected access per step. Each `.lock()[idx]` of the listing is a
   temporary guard: the mutex is taken, one slot is read or written, and
   the mutex is released at the end of the statement. *)

RaceParams == 2
RaceValues == {0, 1, 4}

(* set_parameter_value, first statement: the cache slot is written. *)
write_cache(r, idx, v) ==
    [r EXCEPT !.values[idx] = v, !.control = "written", !.set_id = idx, !.set_v = v]

(* set_parameter_value, second statement: setParamNormalized, then Ok. *)
update_controller(r) ==
    [r EXCEPT !.controller[r.set_id] = r.set_v, !.control = "idle"]

(* let current = self.scalar_values.lock()[idx] *)
read_current(r) ==
    [r EXCEPT !.current = r.values[r.idx], !.audio = "read_previous"]

(* let previous = self.previous_values.lock()[idx] *)
read_previous(r) ==
    [r EXCEPT !.previous = r.previous_values[r.idx], !.audio = "forward"]

forward_change_rereads(r) ==
    IF Abs(r.current - r.previous) > EPSILON
    THEN [r EXCEPT !.points = Append(@, <<r.idx, 0, r.current>>),
                   !.previous_values[r.idx] = r.values[r.idx]]
    ELSE r

(* if (current - previous).abs() > f32::EPSILON: add_point(id, 0, current)
   and previous_values[idx] = current, both from the local `current`. *)
forward_change(r) ==
    IF Abs(r.current - r.previous) > EPSILON
    THEN [r EXCEPT !.points = Append(@, <<r.idx, 0, r.current>>),
                   !.previous_values[r.idx] = r.current]
    ELSE r

InitRace ==
    /\ race = [NoRace EXCEPT !.values = [i \in 1..RaceParams |-> 0],
                             !.previous_values = [i \in 1..RaceParams |-> 0],
                             !.controller = [i \in 1..RaceParams |-> 0]]
    /\ InitParamIdle
    /\ InitEngineIdle
    /\ InitGuiIdle
    /\ InitBlockIdle
    /\ InitLockIdle
    /\ InitLifeIdle
    /\ InitStreamIdle

(* Control thread: the cache write of a set call. A write that lands after
   the block has read `current` of the same parameter and before it has
   updated previous_values is remembered as landed in the middle. *)
SetWrite ==
    /\ race.control = "idle"
    /\ \E id \in 1..RaceParams, v \in RaceValues :
          LET mid == race.audio \in {"read_previous", "forward"} /\ race.idx = id
          IN race' = [write_cache(race, id, v) EXCEPT
                         !.clean = FALSE,
                         !.landed = IF mid THEN "mid" ELSE "no",
                         !.landed_id = IF mid THEN id ELSE 0,
                         !.landed_v = IF mid THEN v ELSE 0]
    /\ UNCHANGED outsideRace

(* Control thread: the controller call that ends the set call. *)
SetController ==
    /\ race.control = "written"
    /\ race' = update_controller(race)
    /\ UNCHANGED outsideRace

(* Real-time thread: prepare_process_data starts its parameter loop. The
   block is clean when no set call is in progress as it starts. *)
BeginBlock ==
    /\ race.audio = "idle"
    /\ race' = [race EXCEPT !.audio = "read_current", !.idx = 1, !.points = <<>>,
                            !.start_previous = race.previous_values,
                            !.clean = (race.control = "idle"),
                            !.landed = IF @ = "mid_forwarded" THEN "next" ELSE "no"]
    /\ UNCHANGED outsideRace

ReadCurrent ==
    /\ race.audio = "read_current"
    /\ race' = read_current(race)
    /\ UNCHANGED outsideRace

ReadPrevious ==
    /\ race.audio = "read_previous"
    /\ race' = read_previous(race)
    /\ UNCHANGED outsideRace

(* The comparison and its branch, then the next parameter or the end of
   the loop. *)
ForwardChange ==
    /\ race.audio = "forward"
    /\ LET r == forward_change(race)
           forwarded == Len(r.points) > Len(race.points)
           more == race.idx < RaceParams
       IN race' = [r EXCEPT !.audio = IF more THEN "read_current" ELSE "idle",
                            !.idx = IF more THEN race.idx + 1 ELSE 0,
                            !.ran = IF more THEN @ ELSE TRUE,
                            !.landed = IF @ = "mid" /\ race.landed_id = race.idx /\ forwarded
                                       THEN "mid_forwarded" ELSE @]
    /\ UNCHANGED outsideRace

NextRace ==
    \/ SetWrite
    \/ SetController
    \/ BeginBlock
    \/ ReadCurrent
    \/ ReadPrevious
    \/ ForwardChange

SpecRace == InitRace /\ [][NextRace]_vars

---------------------------------------------------------------------------
(* Properties of SpecRace *)

forwarded_point(r, i, v) == \E k \in 1..Len(r.points) : r.points[k] = <<i, 0, v>>

(* C23: under any interleaving of set calls with the parameter loop of a
   block, every value written to previous_values is the value of an
   automation point of that block, and a block that starts after the last
   set call has returned forwards the cached value of every parameter whose
   cached value is more than EPSILON away from the value last forwarded. *)
C23_NoUpdateLost ==
    /\ [][\A i \in 1..Len(race.previous_values) :
            (Len(race'.previous_values) = Len(race.previous_values)
             /\ race'.previous_values[i] # race.previous_values[i])
               => forwarded_point(race', i, race'.previous_values[i])]_vars
    /\ []((race.audio = "idle" /\ race.ran /\ race.clean) =>
            \A i \in 1..Len(race.values) :
               Abs(race.values[i] - race.start_previous[i]) > EPSILON
                  => forwarded_point(race, i, race.values[i]))

(* A set landed between the read of current and the update of
   previous_values of a block that forwarded another value, and the next
   block forwarded the value of that set. *)
C23_Witness ==
    /\ race.audio = "idle"
    /\ race.ran
    /\ race.clean
    /\ race.landed = "next"
    /\ race.values[race.landed_id] = race.landed_v
    /\ forwarded_point(race, race.landed_id, race.landed_v)

---------------------------------------------------------------------------
(* SpecClip: one clip of the arrangement as Clip::draw handles it, with
   State::zoom and the zoom slider of Tracks::draw. Positions are sample
   counts; the model keeps them as exact integers between -MaxPos and
   MaxPos, and drags are modelled while |zoom| is at most DragZoom, where
   the float product MouseDelta.x * zoom and the sums are exact. *)

MaxPos == 6
DragZoom == 4
MouseDeltas == {-2, -1, 0, 1, 3}
ClipItems == {"none", "body", "end", "start"}

(* 1 << z on a 32 bit int: 1 << 31 is the sign bit, INT_MIN. *)
shl(z) == IF z >= 31 THEN -(2^30) - (2^30) ELSE 2^z

(* State::State() : zoom{1 << 10}; Tracks::Tracks() : zoom{10} *)
InitialZoom == 10

move_keeps_end_shift(c, dx) ==
    LET delta == dx * c.zoom
        newStart == c.start + delta
        clamped == delta < 0 /\ newStart < 0
    IN [c EXCEPT !.start = IF clamped THEN 0 ELSE newStart,
                 !.end = c.end + delta]

(* Clip::draw, the clip body: delta = MouseDelta.x * zoom; a leftward move
   past 0 puts start at 0 and takes the overshoot off delta; end moves by
   delta. *)
move(c, dx) ==
    LET delta == dx * c.zoom
        newStart == c.start + delta
        clamped == delta < 0 /\ newStart < 0
    IN [c EXCEPT !.start = IF clamped THEN 0 ELSE newStart,
                 !.end = c.end + (IF clamped THEN delta - newStart ELSE delta)]

(* Clip::draw, the end handle: newEnd <= start gives start + 1. *)
resize_end(c, dx) ==
    LET newEnd == c.end + dx * c.zoom
    IN [c EXCEPT !.end = IF newEnd <= c.start THEN c.start + 1 ELSE newEnd]

(* Clip::draw, the start handle: newStart <= 0 gives 1; the end is not
   looked at. *)
resize_start(c, dx) ==
    LET newStart == c.start + dx * c.zoom
    IN [c EXCEPT !.start = IF newStart <= 0 THEN 1 ELSE newStart]

(* Clip::draw: the three invisible buttons in the order of the code; at
   most one item is active in a frame. *)
draw(c, active, dx) ==
    LET c1 == IF active = "body" /\ dx # 0 THEN move(c, dx) ELSE c
        c2 == IF active = "end" /\ dx # 0 THEN resize_end(c1, dx) ELSE c1
        c3 == IF active = "start" /\ dx # 0 THEN resize_start(c2, dx) ELSE c2
    IN [c3 EXCEPT !.active = active, !.dx = dx]

InitClip ==
    /\ \E s \in 0..2, e \in 1..3 :
          /\ s < e
          /\ clip = [start |-> s, end |-> e, zoom |-> shl(InitialZoom),
                     slider |-> InitialZoom, active |-> "none", dx |-> 0]
    /\ ui = NoUi
    /\ view = NoView
    /\ InitRaceIdle
    /\ InitParamIdle
    /\ InitEngineIdle
    /\ InitBlockIdle
    /\ InitLockIdle
    /\ InitLifeIdle
    /\ InitStreamIdle

(* One frame of Clip::draw. *)
ClipDraw ==
    /\ \E active \in ClipItems, dx \in MouseDeltas :
          /\ (active # "none" /\ dx # 0) => (clip.zoom >= -DragZoom /\ clip.zoom <= DragZoom)
          /\ LET c == draw(clip, active, dx)
             IN /\ c.start \in -MaxPos..MaxPos
                /\ c.end \in -MaxPos..MaxPos
                /\ clip' = c
    /\ UNCHANGED outsideClip

(* Tracks::draw, SliderInt("zoom", &zoom, 0, 30): the slider moves to z and
   State::zoom becomes 1 << z. *)
ZoomSlider ==
    /\ \E z \in 0..30 :
          /\ z # clip.slider
          /\ clip' = [clip EXCEPT !.slider = z, !.zoom = shl(z), !.active = "slider", !.dx = 0]
    /\ UNCHANGED outsideClip

(* Tracks::draw with SliderInt("zoom", &zoom, 0, 31). *)
ZoomSliderWide ==
    /\ \E z \in 0..31 :
          /\ z # clip.slider
          /\ clip' = [clip EXCEPT !.slider = z, !.zoom = shl(z), !.active = "slider", !.dx = 0]
    /\ UNCHANGED outsideClip

NextClip ==
    \/ ClipDraw
    \/ ZoomSlider
    \/ ZoomSliderWide

SpecClip == InitClip /\ [][NextClip]_vars

---------------------------------------------------------------------------
(* Properties of SpecClip *)

(* C24: after any sequence of drags of the body, the end handle and the
   start handle, a clip that started with 0 <= start < end still has
   start < end. *)
C24_StartBeforeEnd == clip.start < clip.end

(* C25: a move of the clip body keeps end - start, never takes start below
   0, and a leftward move that would pass 0 ends with start at 0 and the
   end shifted by the same corrected amount. *)
C25_MoveKeepsLength ==
    [][(clip'.active = "body" /\ clip'.dx # 0) =>
          /\ clip'.end - clip'.start = clip.end - clip.start
          /\ clip'.start >= 0
          /\ (clip.start + clip'.dx * clip.zoom < 0) =>
                (clip'.start = 0 /\ clip'.end = clip.end - clip.start)
          /\ (clip.start + clip'.dx * clip.zoom >= 0) =>
                (clip'.start = clip.start + clip'.dx * clip.zoom
                 /\ clip'.end = clip.end + clip'.dx * clip.zoom)]_vars

(* A leftward move at zoom 2 was clamped: the clip of length 2 sits at 0. *)
C25_Witness ==
    /\ clip.active = "body"
    /\ clip.dx = -2
    /\ clip.zoom = 2
    /\ clip.start = 0
    /\ clip.end = 2

(* C28: State::zoom is always a positive power of two that fits a 32 bit
   signed int. *)
C28_ZoomPositivePowerOfTwo == clip.zoom \in {2^k : k \in 0..30}

---------------------------------------------------------------------------
(* SpecTracks: audio::Track::all with the UI Track attached to each audio
   track as data(), the App that attaches them, and Tracks::draw with the
   drag handles of every track. Heights and widths are pixels. *)

MaxTracks == 2
MaxHeight == 25
MaxWidth == 103
DragDeltas == {-3, 0, 2}

(* State::trackMinHeight: two text lines and the inner spacing, set by
   GLFW::run; a small stand-in above the initial height of a track. *)
trackMinHeight == 22
(* float trackMinWidth = 100 *)
trackMinWidth == 100
(* float _height = 20 *)
InitialHeight == 20
(* Tracks::Tracks() : width{100} *)
InitialWidth == 100

(* App::App: every audio track without data gets a new UI Track; the
   Tracks member is constructed with it. *)
App(u) ==
    [u EXCEPT !.app = TRUE,
              !.width = InitialWidth,
              !.all = [i \in 1..Len(u.all) |->
                          IF u.all[i].data THEN u.all[i]
                          ELSE [data |-> TRUE, height |-> InitialHeight]]]

(* DragLimit on a ui::Track: add, then clamp. *)
DragLimit(value, active, delta) ==
    IF active /\ delta # 0
    THEN (IF value + delta < trackMinHeight THEN trackMinHeight ELSE value + delta)
    ELSE value

(* DragLimit on an audio::Track: a value below the minimum is raised to it,
   any other value takes the delta with no check after. *)
DragLimitAudio(value, active, delta) ==
    IF active /\ delta # 0
    THEN (IF value < trackMinHeight THEN trackMinHeight ELSE value + delta)
    ELSE value

(* HDragLimit: add, then clamp to trackMinWidth. *)
HDragLimit(value, active, delta) ==
    IF active /\ delta # 0
    THEN (IF value + delta < trackMinWidth THEN trackMinWidth ELSE value + delta)
    ELSE value

(* Tracks::draw from track i on: data() is dereferenced with no check (a
   null pointer ends the frame in a fault); the height is raised to
   trackMinHeight; Track::draw runs HDragLimit on the shared width, draws
   the clips with the height, and runs DragLimit on the height last. *)
RECURSIVE draw_tracks(_, _, _, _, _)
draw_tracks(u, i, active, delta, audio_limit) ==
    IF i > Len(u.all) THEN u
    ELSE IF ~u.all[i].data THEN [u EXCEPT !.fault = TRUE]
    ELSE LET h == IF u.all[i].height < trackMinHeight THEN trackMinHeight
                  ELSE u.all[i].height
             w == HDragLimit(u.width, active = <<"H", i>>, delta)
             h2 == IF audio_limit
                   THEN DragLimitAudio(h, active = <<"V", i>>, delta)
                   ELSE DragLimit(h, active = <<"V", i>>, delta)
         IN draw_tracks([u EXCEPT !.width = w,
                                  !.drawn = Append(@, h),
                                  !.all[i].height = h2],
                        i + 1, active, delta, audio_limit)

InitTracks ==
    /\ ui = NoUi
    /\ clip = NoClip
    /\ view = NoView
    /\ InitRaceIdle
    /\ InitParamIdle
    /\ InitEngineIdle
    /\ InitBlockIdle
    /\ InitLockIdle
    /\ InitLifeIdle
    /\ InitStreamIdle

(* maolan::audio::Track one("one", 2): a new audio track joins
   audio::Track::all with no data attached. *)
NewAudioTrack ==
    /\ ~ui.fault
    /\ Len(ui.all) < MaxTracks
    /\ ui' = [ui EXCEPT !.all = Append(@, [data |-> FALSE, height |-> 0]),
                        !.op = "track", !.active = <<"none", 0>>, !.delta = 0]
    /\ UNCHANGED outsideTracks

(* new maolan::ui::App() *)
NewApp ==
    /\ ~ui.fault
    /\ ~ui.app
    /\ ui' = [App(ui) EXCEPT !.op = "app", !.active = <<"none", 0>>, !.delta = 0]
    /\ UNCHANGED outsideTracks

ActiveItems ==
    {<<"none", 0>>} \cup {<<k, i>> : k \in {"H", "V"}, i \in 1..MaxTracks}

(* One frame: App::draw calls Tracks::draw, with the DragLimit that takes
   a ui::Track. *)
TracksDraw ==
    /\ ~ui.fault
    /\ ui.app
    /\ \E active \in ActiveItems, delta \in DragDeltas :
          LET u == draw_tracks([ui EXCEPT !.drawn = <<>>], 1, active, delta, FALSE)
          IN /\ u.width <= MaxWidth
             /\ \A i \in 1..Len(u.all) : u.all[i].height <= MaxHeight
             /\ ui' = [u EXCEPT !.op = "draw", !.active = active, !.delta = delta]
    /\ UNCHANGED outsideTracks

(* One frame with the DragLimit of widgets/draglimit.cpp, which takes an
   audio::Track. *)
TracksDrawAudio ==
    /\ ~ui.fault
    /\ ui.app
    /\ \E active \in ActiveItems, delta \in DragDeltas :
          LET u == draw_tracks([ui EXCEPT !.drawn = <<>>], 1, active, delta, TRUE)
          IN /\ u.width <= MaxWidth
             /\ \A i \in 1..Len(u.all) : u.all[i].height <= MaxHeight
             /\ ui' = [u EXCEPT !.op = "draw", !.active = active, !.delta = delta]
    /\ UNCHANGED outsideTracks

NextTracks ==
    \/ NewAudioTrack
    \/ NewApp
    \/ TracksDraw
    \/ TracksDrawAudio

SpecTracks == InitTracks /\ [][NextTracks]_vars

---------------------------------------------------------------------------
(* Properties of SpecTracks *)

(* C26: whenever Tracks::draw runs, every audio track of audio::Track::all
   has a UI Track attached as data(), whether the track was created before
   or after App was constructed: no frame dereferences a null pointer. *)
C26_EveryTrackHasData ==
    [][ui'.op = "draw" =>
          /\ \A i \in 1..Len(ui.all) : ui.all[i].data
          /\ ~ui'.fault]_vars

(* C27: every track is drawn with a height of at least trackMinHeight, and
   after the drags of a frame every track height is at least
   trackMinHeight and the header width at least trackMinWidth. *)
C27_HeightAtLeastMinimum ==
    [][(ui'.op = "draw" /\ ~ui'.fault) =>
          /\ \A i \in 1..Len(ui'.drawn) : ui'.drawn[i] >= trackMinHeight
          /\ \A i \in 1..Len(ui'.all) : ui'.all[i].height >= trackMinHeight
          /\ ui'.width >= trackMinWidth]_vars

---------------------------------------------------------------------------
(* SpecView: the main group of the gnui window with its two children, the
   tracks view (child 0) and the slider view (child 1), and the callbacks
   of the View popup menu. A group is the sequence of the visible flags of
   its children; view.log is the sequence of View callbacks run so far. *)

MaxCallbacks == 6

(* gnui::Widget::hide and show on child i (from 0) of a group. *)
hide(g, i) == [g EXCEPT ![i + 1] = FALSE]

show(g, i) == [g EXCEPT ![i + 1] = TRUE]

switchToSliders_without_hide(v) ==
    [v EXCEPT !.visible = show(@, 1)]

(* mainGrp->child(0)->hide(); mainGrp->child(1)->show(); *)
switchToSliders(v) ==
    [v EXCEPT !.visible = show(hide(@, 0), 1)]

(* mainGrp->child(1)->hide(); mainGrp->child(0)->show(); *)
switchToTracks(v) ==
    [v EXCEPT !.visible = show(hide(@, 1), 0)]

(* slider->label("All"); slider->resize(0,0); *)
changeSliderLabel(v) == [v EXCEPT !.label = "All", !.size = <<0, 0>>]

(* main: tracksView and sliderView are created in mainGrp in this order,
   sliderView->hide() follows; the slider is 50 by 300, labelled "Master". *)
InitView ==
    /\ view = [visible |-> hide(<<TRUE, TRUE>>, 1), label |-> "Master",
               size |-> <<50, 300>>, log |-> <<>>]
    /\ clip = NoClip
    /\ ui = NoUi
    /\ InitRaceIdle
    /\ InitParamIdle
    /\ InitEngineIdle
    /\ InitBlockIdle
    /\ InitLockIdle
    /\ InitLifeIdle
    /\ InitStreamIdle

(* View > Sliders *)
SwitchToSliders ==
    /\ Len(view.log) < MaxCallbacks
    /\ view' = [switchToSliders(view) EXCEPT !.log = Append(@, "sliders")]
    /\ UNCHANGED outsideView

(* View > Tracks *)
SwitchToTracks ==
    /\ Len(view.log) < MaxCallbacks
    /\ view' = [switchToTracks(view) EXCEPT !.log = Append(@, "tracks")]
    /\ UNCHANGED outsideView

(* The button of the tracks view: tr->callback(changeSliderLabel, slider).
   The button can be pressed while its view is shown. *)
ChangeSliderLabel ==
    /\ view.visible[1]
    /\ view' = changeSliderLabel(view)
    /\ UNCHANGED outsideView

NextView ==
    \/ SwitchToSliders
    \/ SwitchToTracks
    \/ ChangeSliderLabel

SpecView == InitView /\ [][NextView]_vars

---------------------------------------------------------------------------
(* Properties of SpecView *)

(* C30: exactly one of the two views is visible in every state: the tracks
   view initially and after switchToTracks, the slider view after
   switchToSliders, for any sequence of the two callbacks. *)
C30_ExactlyOneViewVisible ==
    /\ view.visible[1] # view.visible[2]
    /\ view.visible[1] = (view.log = <<>> \/ view.log[Len(view.log)] = "tracks")
    /\ view.visible[2] = (view.log # <<>> /\ view.log[Len(view.log)] = "sliders")

(* switchToSliders ran twice in a row, then switchToTracks twice. *)
C30_Witness ==
    /\ view.log = <<"sliders", "sliders", "tracks", "tracks">>
    /\ view.visible = <<TRUE, FALSE>>

====
